---- MODULE Spec2Model ----
(***************************************************************************)
(* sudokupy.py: a 9x9 Sudoku grid solved by naive elimination.             *)
(*                                                                         *)
(* A Digit keeps the set v of its possible values; a DigitGroup (row, col  *)
(* or box) lists its 9 Digits; the Grid owns 81 Digits and 27 groups.      *)
(* Three specifications share the variables:                               *)
(*   Spec       the classes called directly: any bounded sequence of       *)
(*              load, setSolvedValue, not_possible, propagate and          *)
(*              propagate_all calls on one Grid;                           *)
(*   SpecSolve  one load on the fresh Grid, then propagate_all calls;      *)
(*   SpecMain   the __main__ script: load, then the solve loop;            *)
(*   SpecLoad   Grid.load taken one character of the text at a time;       *)
(*   SpecPass   Grid.propagate_all taken one Digit at a time.              *)
(*                                                                         *)
(* Python values in a candidate set: an int n is the number n; the         *)
(* one-character str that load stores (setSolvedValue(c), c a character    *)
(* of the puzzle) is its character code ord(c), so that '5' and 5 are      *)
(* different members, as they are in a Python set.                         *)
(***************************************************************************)
EXTENDS Integers, Sequences, FiniteSets, TLC

VARIABLES
    digits,         \* Grid.digits[p].v : the candidate set of each Digit
    rows,           \* Grid.rows[r].digits : positions, in append order
    cols,           \* Grid.cols[c].digits
    boxes,          \* Grid.boxes[b].digits
    loaded,         \* Grid.loaded
    quiet,          \* args.quiet
    puzzle,         \* the text given to the last load (<<>> before any)
    raised,         \* the last call ended with an exception
    prev,           \* digits as they were before the last call
    last,           \* the last call: [op, pos, val, flag]
    calls,          \* number of single-Digit calls made so far
    loads,          \* number of load calls made so far
    pc,             \* position of the __main__ script
    it,             \* loop variable of the solve loop
    last_unsolved,  \* last_unsolved of the solve loop
    report,         \* what the script printed at its end: [kind, unsolved, iterations]
    counter,        \* counter of a load in progress: which Digit it is on
    consumed,       \* characters of puzzle the loop of that load has taken
    cursor,         \* Digits the loop of a propagate_all in progress has taken
    began          \* digits as they were when the call in progress began

vars == <<digits, rows, cols, boxes, loaded, quiet, puzzle, raised, prev, last,
          calls, loads, pc, it, last_unsolved, report,
          counter, consumed, cursor, began>>

fixed == <<rows, cols, boxes, quiet>>
driver == <<pc, it, last_unsolved, report>>
(* The locals of a call taken step by step; a call taken whole leaves them. *)
stepping == <<counter, consumed, cursor, began>>

----------------------------------------------------------------------------
(* Program constants *)

GridSide == 9
NumDigits == 81
MAX_ITERATIONS == 20
None == 0

Positions == 0 .. (NumDigits - 1)
Values == 1 .. 9
DigitChars == {"1", "2", "3", "4", "5", "6", "7", "8", "9"}
UNKNOWN_DIGIT_INPUT == {"-", ".", "_", " ", "0"}
ROW_TERMINATOR == {"\n", "\r"}

(* The str c as a member of a candidate set: its character code. *)
ord(c) ==
    CASE c = "0" -> 48 [] c = "1" -> 49 [] c = "2" -> 50 [] c = "3" -> 51
      [] c = "4" -> 52 [] c = "5" -> 53 [] c = "6" -> 54 [] c = "7" -> 55
      [] c = "8" -> 56 [] c = "9" -> 57

(* Python int(x): a digit str is parsed, an int is itself. *)
int(x) == IF x \in 48 .. 57 THEN x - 48 ELSE x

(* The result of a call: the candidate sets it leaves, and whether it raised. *)
Ok(ds) == [digits |-> ds, raised |-> FALSE]
Raise(ds) == [digits |-> ds, raised |-> TRUE]

----------------------------------------------------------------------------
(* Grid construction *)

(* row_col_box without the `* 3` of the box number. *)
row_col_box_flat(position) ==
    LET r == position \div 9
        c == position % 9
        b == (r \div 3) + (c \div 3)
    IN  <<r, c, b>>

row_col_box(position) ==
    LET r == position \div 9
        c == position % 9
        b == (r \div 3) * 3 + (c \div 3)
    IN  <<r, c, b>>

(* range(81), the order in which Grid.__init__ makes and appends Digits. *)
PositionOrder == [i \in 1 .. NumDigits |-> i - 1]

(* The 9 DigitGroups of one kind after Grid.__init__'s loop: group idx      *)
(* holds, in append order, each position whose row_col_box component        *)
(* `which` (1 row, 2 col, 3 box) is idx.                                    *)
GroupsBy(which) ==
    [idx \in 0 .. (GridSide - 1) |->
        LET appended(position) == row_col_box(position)[which] = idx
        IN  SelectSeq(PositionOrder, appended)]

FreshDigits == [p \in Positions |-> Values]

----------------------------------------------------------------------------
(* Digit *)

Digit_solved(ds, p) == Cardinality(ds[p]) = 1

(* getSolvedValue handing back the member of v as it is held. *)
Digit_getSolvedValue_raw(ds, p) ==
    IF Digit_solved(ds, p) THEN CHOOSE x \in ds[p] : TRUE ELSE None

Digit_getSolvedValue(ds, p) ==
    IF Digit_solved(ds, p) THEN int(CHOOSE x \in ds[p] : TRUE) ELSE None

RECURSIVE Digit_propagate(_, _)

(* not_possible without its solved() test. *)
Digit_not_possible_unguarded(ds, p, value, recurse) ==
    LET d1 == [ds EXCEPT ![p] = @ \ {value}]
    IN  IF recurse THEN Digit_propagate(d1, p) ELSE Ok(d1)

(* not_possible ignoring the request on a solved Digit instead of raising. *)
Digit_not_possible_silent(ds, p, value, recurse) ==
    IF Digit_solved(ds, p) THEN Ok(ds)
    ELSE LET d1 == [ds EXCEPT ![p] = @ \ {value}]
         IN  IF recurse THEN Digit_propagate(d1, p) ELSE Ok(d1)

(* not_possible discarding the next digit instead of `value`. *)
Digit_not_possible_off_by_one(ds, p, value, recurse) ==
    IF Digit_solved(ds, p) THEN Raise(ds)
    ELSE LET d1 == [ds EXCEPT ![p] = @ \ {(value % 9) + 1}]
         IN  IF recurse THEN Digit_propagate(d1, p) ELSE Ok(d1)

Digit_not_possible(ds, p, value, recurse) ==
    IF Digit_solved(ds, p) THEN Raise(ds)
    ELSE LET d1 == [ds EXCEPT ![p] = @ \ {value}]
         IN  IF recurse THEN Digit_propagate(d1, p) ELSE Ok(d1)

----------------------------------------------------------------------------
(* DigitGroup *)

(* The loop's turn without its `if not dig.solved()` test, discarding in place. *)
DigitGroup_visit_every(ds, p, value) == Ok([ds EXCEPT ![p] = @ \ {value}])

(* One turn of DigitGroup.not_possible's loop, for the member at p. *)
DigitGroup_visit(ds, p, value) ==
    IF ~Digit_solved(ds, p) THEN Digit_not_possible(ds, p, value, FALSE)
    ELSE Ok(ds)

RECURSIVE DigitGroup_loop(_, _, _, _)
DigitGroup_loop(ds, members, i, value) ==
    IF i > Len(members) THEN Ok(ds)
    ELSE LET r == DigitGroup_visit(ds, members[i], value)
         IN  IF r.raised THEN r
             ELSE DigitGroup_loop(r.digits, members, i + 1, value)

DigitGroup_not_possible(ds, members, value) ==
    DigitGroup_loop(ds, members, 1, value)

----------------------------------------------------------------------------
(* Digit.propagate and Digit.setSolvedValue *)

Digit_row(p) == rows[row_col_box(p)[1]]
Digit_col(p) == cols[row_col_box(p)[2]]
Digit_box(p) == boxes[row_col_box(p)[3]]

(* propagate telling the row and the col, and not the box. *)
Digit_propagate_no_box(ds, p) ==
    IF Digit_solved(ds, p)
    THEN LET r1 == DigitGroup_not_possible(ds, Digit_row(p),
                                           Digit_getSolvedValue(ds, p))
         IN  IF r1.raised THEN r1
             ELSE DigitGroup_not_possible(r1.digits, Digit_col(p),
                                          Digit_getSolvedValue(r1.digits, p))
    ELSE Ok(ds)

Digit_propagate(ds, p) ==
    IF Digit_solved(ds, p)
    THEN LET r1 == DigitGroup_not_possible(ds, Digit_row(p),
                                           Digit_getSolvedValue(ds, p))
         IN  IF r1.raised THEN r1
             ELSE LET r2 == DigitGroup_not_possible(r1.digits, Digit_col(p),
                                   Digit_getSolvedValue(r1.digits, p))
                  IN  IF r2.raised THEN r2
                      ELSE DigitGroup_not_possible(r2.digits, Digit_box(p),
                                   Digit_getSolvedValue(r2.digits, p))
    ELSE Ok(ds)

(* setSolvedValue propagating whether asked to or not. *)
Digit_setSolvedValue_propagating(ds, p, myvalue, propagate) ==
    Digit_propagate([ds EXCEPT ![p] = {myvalue}], p)

Digit_setSolvedValue(ds, p, myvalue, propagate) ==
    LET d1 == [ds EXCEPT ![p] = {myvalue}]
    IN  IF propagate THEN Digit_propagate(d1, p) ELSE Ok(d1)

----------------------------------------------------------------------------
(* Grid *)

Grid_number_unsolved(ds) ==
    Cardinality({p \in Positions : ~Digit_solved(ds, p)})

Grid_solved(ds) == 0 = Grid_number_unsolved(ds)

RECURSIVE Grid_propagate_range(_, _, _)
(* Grid.propagate_all's loop for the Digits lo..hi, taken in order (the     *)
(* range is walked by halves); an exception ends the loop.                  *)
Grid_propagate_range(ds, lo, hi) ==
    IF lo > hi THEN Ok(ds)
    ELSE IF lo = hi THEN Digit_propagate(ds, lo)
    ELSE LET mid == (lo + hi) \div 2
             r == Grid_propagate_range(ds, lo, mid)
         IN  IF r.raised THEN r
             ELSE Grid_propagate_range(r.digits, mid + 1, hi)

Grid_propagate_all(ds) == Grid_propagate_range(ds, 0, NumDigits - 1)

(* The loop's break test taken one Digit late. *)
Grid_load_done_late(k) == k > 81

(* Grid.load's break test: we have all 81 digits. *)
Grid_load_done(k) == k > 80

(* The loop's turn with a row terminator always skipping to the next row. *)
Grid_load_char_always_skip(st, c) ==
    IF c \in DigitChars
    THEN [digits |-> Digit_setSolvedValue(st.digits, st.counter, ord(c), FALSE).digits,
          counter |-> st.counter + 1]
    ELSE IF c \in UNKNOWN_DIGIT_INPUT
    THEN [st EXCEPT !.counter = @ + 1]
    ELSE IF c \in ROW_TERMINATOR
    THEN [st EXCEPT !.counter = 9 * ((@ \div 9) + 1)]
    ELSE st

(* The loop's turn with every other character construed as unknown. *)
Grid_load_char_any_unknown(st, c) ==
    IF c \in DigitChars
    THEN [digits |-> Digit_setSolvedValue(st.digits, st.counter, ord(c), FALSE).digits,
          counter |-> st.counter + 1]
    ELSE IF c \in ROW_TERMINATOR
    THEN IF st.counter % 9 # 0
         THEN [st EXCEPT !.counter = 9 * ((@ \div 9) + 1)]
         ELSE st
    ELSE [st EXCEPT !.counter = @ + 1]

(* One turn of Grid.load's loop, below its `counter > 80` test: the         *)
(* character c met with the Grid as st = [digits, counter] leaves it.       *)
Grid_load_char(st, c) ==
    IF c \in DigitChars
    THEN [digits |-> Digit_setSolvedValue(st.digits, st.counter, ord(c), FALSE).digits,
          counter |-> st.counter + 1]
    ELSE IF c \in UNKNOWN_DIGIT_INPUT
    THEN [st EXCEPT !.counter = @ + 1]
    ELSE IF c \in ROW_TERMINATOR
    THEN IF st.counter % 9 # 0
         THEN [st EXCEPT !.counter = 9 * ((@ \div 9) + 1)]
         ELSE st
    ELSE st

RECURSIVE Grid_load_range(_, _, _, _)
(* Grid.load's loop for the characters lo..hi of the text, taken in order   *)
(* (the range is walked by halves); `counter > 80` is the loop's break.     *)
Grid_load_range(st, text, lo, hi) ==
    IF lo > hi \/ Grid_load_done(st.counter) THEN st
    ELSE IF lo = hi THEN Grid_load_char(st, text[lo])
    ELSE LET mid == (lo + hi) \div 2
             s1 == Grid_load_range(st, text, lo, mid)
         IN  Grid_load_range(s1, text, mid + 1, hi)

Grid_load(ds, text) ==
    Grid_load_range([digits |-> ds, counter |-> 0], text, 1, Len(text))

----------------------------------------------------------------------------
(* Puzzle texts *)

EXAMPLE_GRID ==
    <<
       "\n", ".", ".", "6", "7", ".", ".", ".", "8", ".",
       "\n", ".", ".", "4", "2", "6", ".", ".", ".", ".",
       "\n", ".", "3", ".", "8", ".", "9", "4", ".", "7",
       "\n", "8", ".", ".", ".", "9", "2", ".", ".", "1",
       "\n", ".", ".", "3", ".", ".", "8", ".", ".", ".",
       "\n", ".", "7", ".", "5", ".", ".", "2", ".", ".",
       "\n", ".", ".", ".", ".", ".", ".", ".", ".", ".",
       "\n", ".", ".", ".", "4", ".", ".", ".", ".", "5",
       "\n", "9", ".", "2", ".", ".", ".", "3", "1", ".",
       "\n" >>

ExampleSolution ==
    <<
       "5", "9", "6", "7", "3", "4", "1", "8", "2",
       "7", "8", "4", "2", "6", "1", "5", "9", "3",
       "2", "3", "1", "8", "5", "9", "4", "6", "7",
       "8", "6", "5", "3", "9", "2", "7", "4", "1",
       "4", "2", "3", "1", "7", "8", "6", "5", "9",
       "1", "7", "9", "5", "4", "6", "2", "3", "8",
       "3", "4", "7", "9", "1", "5", "8", "2", "6",
       "6", "1", "8", "4", "2", "3", "9", "7", "5",
       "9", "5", "2", "6", "8", "7", "3", "1", "4" >>

LongChainGrid ==
    <<
       "2", "3", ".", "6", "5", ".", "9", ".", "1",
       "7", ".", ".", ".", ".", ".", "5", ".", ".",
       ".", "6", "5", "1", ".", ".", ".", ".", ".",
       "6", ".", ".", "2", ".", "3", ".", ".", ".",
       "3", ".", "7", ".", ".", ".", ".", "2", "9",
       "1", "2", ".", ".", ".", "9", ".", ".", "5",
       ".", ".", "3", "9", "2", "6", ".", ".", ".",
       ".", ".", ".", ".", "3", ".", "8", ".", "2",
       ".", "4", "2", "5", "8", ".", ".", ".", "." >>

LongChainSolution ==
    <<
       "2", "3", "8", "6", "5", "7", "9", "4", "1",
       "7", "9", "1", "3", "4", "2", "5", "8", "6",
       "4", "6", "5", "1", "9", "8", "2", "3", "7",
       "6", "5", "9", "2", "7", "3", "4", "1", "8",
       "3", "8", "7", "4", "1", "5", "6", "2", "9",
       "1", "2", "4", "8", "6", "9", "3", "7", "5",
       "8", "7", "3", "9", "2", "6", "1", "5", "4",
       "5", "1", "6", "7", "3", "4", "8", "9", "2",
       "9", "4", "2", "5", "8", "1", "7", "6", "3" >>

TwinNineGrid ==
    <<
       ".", ".", ".", ".", ".", ".", ".", ".", ".",
       "1", "4", ".", ".", ".", ".", ".", ".", ".",
       "2", "5", ".", ".", ".", ".", ".", ".", ".",
       "3", "6", ".", ".", ".", ".", ".", ".", ".",
       "4", "7", ".", ".", ".", ".", ".", ".", ".",
       "5", "8", ".", ".", ".", ".", ".", ".", ".",
       "6", "1", ".", ".", ".", ".", ".", ".", ".",
       "7", "2", ".", ".", ".", ".", ".", ".", ".",
       "8", "3", ".", ".", ".", ".", ".", ".", "." >>

(* All 81 cells unknown. *)
EmptyGrid == [i \in 1 .. NumDigits |-> "."]

(* The same digit given twice in row 0; the text ends there. *)
DupRowGrid == <<"5", "5">>

(* The completed grid `solution` with the cells of `blanks` made unknown. *)
Blanked(solution, blanks) ==
    [i \in 1 .. NumDigits |-> IF (i - 1) \in blanks THEN "." ELSE solution[i]]

(* Cells 0, 1, 72, 73 of ExampleSolution hold 5 9 / 9 5: with all four     *)
(* blanked the puzzle has two solutions.  40 is the centre cell.           *)
BlankCells == {0, 1, 72, 73, 40}

BlankedGrids == {Blanked(ExampleSolution, B) : B \in SUBSET BlankCells}

RectangleGrid == Blanked(ExampleSolution, {0, 1, 72, 73})

(* Completed grids with one cell blanked: the first cell, the last, and    *)
(* cells with peers on both sides of them in the order of the pass.        *)
SingleBlankCells == {0, 8, 30, 44, 80}

SingleBlankGrids ==
    {Blanked(solution, {b}) :
        solution \in {ExampleSolution, LongChainSolution}, b \in SingleBlankCells}

(* ExampleSolution with a second 5 written over the 9 of cell 1. *)
DupSolvedGrid == [ExampleSolution EXCEPT ![2] = "5"]

(* Seven givens in row 0 and nothing else: cells 0 and 1 are left with     *)
(* the candidates 5 and 9 by one propagate_all.                            *)
PairRowGrid == <<".", ".", "1", "2", "3", "4", "6", "7", "8">>

(* Short rows ended by terminators, a terminator at a row's end, characters *)
(* load does not know, a short last row, and a digit after the 81st slot.  *)
ShortRowsGrid ==
    <<
       "1", "2", "\n", "\r",
       "x", "3", " ", "|", "0", "\n",
       "-", "\n", "-", "\n", "-", "\n", "-", "\n", "-", "\n", "-", "\r",
       "_", "7", "\n",
       "9", "\n", "x" >>

(* A completed grid followed by more text. *)
OverlongGrid == ExampleSolution \o <<"1", "\n", "x", ".">>

(* Two givens among characters load does not know; the text ends there. *)
NoisyGrid == <<"5", "x", ".", "|", "3", "+">>

(* The texts SpecLoad reads a character at a time. *)
LoadTexts ==
    {EXAMPLE_GRID, ShortRowsGrid, OverlongGrid, NoisyGrid, DupRowGrid,
     RectangleGrid, <<>>}

(* The grids SpecPass propagates a Digit at a time. *)
PassPuzzles ==
    {EXAMPLE_GRID, LongChainGrid, PairRowGrid, DupRowGrid,
     Blanked(ExampleSolution, {0})}

MainPuzzles ==
    {EXAMPLE_GRID, EmptyGrid, LongChainGrid, TwinNineGrid, DupRowGrid,
     DupSolvedGrid, PairRowGrid} \cup BlankedGrids \cup SingleBlankGrids

(* Spec loads sparse grids, and calls the Digits at cells 0 and 1 (same    *)
(* row, same box) with the values PairRowGrid leaves open there; '9' is    *)
(* the str a caller may assign, as load does.                              *)
LibPuzzles == {PairRowGrid, DupRowGrid}
CallPositions == {0, 1}
AssignValues == {5, ord("9")}
EliminateValues == {5, 9}

(* The groups Spec calls directly: the row, the col and the box of cell 0 *)
(* or 1, as [kind, idx].                                                  *)
CallGroups ==
    {[kind |-> "row", idx |-> 0], [kind |-> "col", idx |-> 1],
     [kind |-> "box", idx |-> 0]}

MaxCalls == 2
MaxLoads == 1

----------------------------------------------------------------------------
(* The state after g = Grid() *)

NoCall == [op |-> "none", pos |-> 0, val |-> 0, flag |-> FALSE]
(* report.unsolved is the count the stall message prints, and            *)
(* report.iterations the count the "found solution" message prints.      *)
NoReport == [kind |-> "none", unsolved |-> 0, iterations |-> 0]

GridInit ==
    /\ digits = FreshDigits
    /\ rows = GroupsBy(1)
    /\ cols = GroupsBy(2)
    /\ boxes = GroupsBy(3)
    /\ loaded = FALSE
    /\ quiet \in BOOLEAN
    /\ puzzle = <<>>
    /\ raised = FALSE
    /\ prev = FreshDigits
    /\ last = NoCall
    /\ calls = 0
    /\ loads = 0
    /\ it = 0
    /\ last_unsolved = 0
    /\ report = NoReport
    /\ counter = 0
    /\ consumed = 0
    /\ cursor = 0
    /\ began = FreshDigits

Init == GridInit /\ ~quiet /\ pc = "lib"

(* What a call leaves behind: the result r of the call named by `call`. *)
Called(r, call) ==
    /\ prev' = digits
    /\ digits' = r.digits
    /\ raised' = r.raised
    /\ last' = call

----------------------------------------------------------------------------
(* Spec: calls on the Grid and its Digits *)

Load(text) ==
    /\ pc = "lib"
    /\ loads < MaxLoads
    /\ Called(Ok(Grid_load(digits, text).digits), [NoCall EXCEPT !.op = "load"])
    /\ loaded' = TRUE
    /\ puzzle' = text
    /\ loads' = loads + 1
    /\ UNCHANGED <<fixed, calls, driver, stepping>>

SetSolvedValue(p, v, propagate) ==
    /\ pc = "lib"
    /\ calls < MaxCalls
    /\ Called(Digit_setSolvedValue(digits, p, v, propagate),
              [op |-> "setSolvedValue", pos |-> p, val |-> v, flag |-> propagate])
    /\ calls' = calls + 1
    /\ UNCHANGED <<fixed, loaded, puzzle, loads, driver, stepping>>

NotPossible(p, v, recurse) ==
    /\ pc = "lib"
    /\ calls < MaxCalls
    /\ Called(Digit_not_possible(digits, p, v, recurse),
              [op |-> "not_possible", pos |-> p, val |-> v, flag |-> recurse])
    /\ calls' = calls + 1
    /\ UNCHANGED <<fixed, loaded, puzzle, loads, driver, stepping>>

Propagate(p) ==
    /\ pc = "lib"
    /\ calls < MaxCalls
    /\ Called(Digit_propagate(digits, p), [NoCall EXCEPT !.op = "propagate", !.pos = p])
    /\ calls' = calls + 1
    /\ UNCHANGED <<fixed, loaded, puzzle, loads, driver, stepping>>

(* The DigitGroup g names: g.rows[idx], g.cols[idx] or g.boxes[idx]. *)
GroupOf(g) ==
    CASE g.kind = "row" -> rows[g.idx]
      [] g.kind = "col" -> cols[g.idx]
      [] g.kind = "box" -> boxes[g.idx]

(* DigitGroup.not_possible(v) on the group g; last.flag is unused. *)
GroupNotPossible(g, v) ==
    /\ pc = "lib"
    /\ calls < MaxCalls
    /\ Called(DigitGroup_not_possible(digits, GroupOf(g), v),
              [op |-> g.kind \o ".not_possible", pos |-> g.idx, val |-> v,
               flag |-> FALSE])
    /\ calls' = calls + 1
    /\ UNCHANGED <<fixed, loaded, puzzle, loads, driver, stepping>>

PropagateAll ==
    /\ pc = "lib"
    /\ Called(Grid_propagate_all(digits), [NoCall EXCEPT !.op = "propagate_all"])
    /\ UNCHANGED <<fixed, loaded, puzzle, calls, loads, driver, stepping>>

Next ==
    \/ \E text \in LibPuzzles : Load(text)
    \/ \E p \in CallPositions, v \in AssignValues, f \in BOOLEAN : SetSolvedValue(p, v, f)
    \/ \E p \in CallPositions, v \in EliminateValues, f \in BOOLEAN : NotPossible(p, v, f)
    \/ \E p \in CallPositions : Propagate(p)
    \/ \E g \in CallGroups, v \in EliminateValues : GroupNotPossible(g, v)
    \/ PropagateAll

Spec == Init /\ [][Next]_vars

----------------------------------------------------------------------------
(* SpecSolve: one load on the fresh Grid, then propagate_all calls *)

LoadPuzzle(text) ==
    /\ pc = "lib"
    /\ loads = 0
    /\ Called(Ok(Grid_load(digits, text).digits), [NoCall EXCEPT !.op = "load"])
    /\ loaded' = TRUE
    /\ puzzle' = text
    /\ loads' = loads + 1
    /\ UNCHANGED <<fixed, calls, driver, stepping>>

PropagateLoaded ==
    /\ loaded
    /\ PropagateAll

NextSolve ==
    \/ \E text \in MainPuzzles : LoadPuzzle(text)
    \/ PropagateLoaded

SpecSolve == Init /\ [][NextSolve]_vars

----------------------------------------------------------------------------
(* SpecMain: the __main__ script *)

InitMain == GridInit /\ pc = "start"

(* g.load(EXAMPLE_GRID) with --example, g.load(f.read()) with a filename. *)
MainLoad(text) ==
    /\ pc = "start"
    /\ Called(Ok(Grid_load(digits, text).digits), [NoCall EXCEPT !.op = "load"])
    /\ loaded' = TRUE
    /\ puzzle' = text
    /\ loads' = loads + 1
    /\ pc' = "loop"
    /\ UNCHANGED <<fixed, calls, it, last_unsolved, report, stepping>>

(* Neither --example nor a filename: print_help and sys.exit(2). *)
MainNoInput ==
    /\ pc = "start"
    /\ ~loaded
    /\ pc' = "exit"
    /\ report' = [NoReport EXCEPT !.kind = "help"]
    /\ UNCHANGED <<digits, fixed, loaded, puzzle, raised, prev, last, calls,
                   loads, it, last_unsolved, stepping>>

(* The stall test taking a pass that solved nothing new for progress. *)
Stalled_only_if_more(before, after) == after > before

(* The stall test taking a pass that solved a single cell for a stall. *)
Stalled_or_one_solved(before, after) == after >= before - 1

(* The stall test of the solve loop. *)
Stalled(before, after) == after = before

(* range(1, MAX_ITERATIONS) has a next value. *)
HasNext == it + 1 < MAX_ITERATIONS

(* The loop's first statement: if g.solved(): break *)
LoopBreak ==
    /\ pc = "loop"
    /\ HasNext
    /\ Grid_solved(digits)
    /\ it' = it + 1
    /\ pc' = "print"
    /\ UNCHANGED <<digits, fixed, loaded, puzzle, raised, prev, last, calls,
                   loads, last_unsolved, report, stepping>>

(* One turn of the loop on an unsolved grid. *)
LoopPass ==
    /\ pc = "loop"
    /\ HasNext
    /\ ~Grid_solved(digits)
    /\ it' = it + 1
    /\ last_unsolved' = Grid_number_unsolved(digits)
    /\ LET r == Grid_propagate_all(digits)
       IN  /\ Called(r, [NoCall EXCEPT !.op = "propagate_all"])
           /\ IF r.raised
              THEN /\ pc' = "crash"
                   /\ report' = [NoReport EXCEPT !.kind = "traceback"]
              ELSE IF Stalled(Grid_number_unsolved(digits),
                              Grid_number_unsolved(r.digits))
              THEN /\ pc' = "exit"
                   /\ report' = [kind |-> "stall",
                                 unsolved |-> Grid_number_unsolved(r.digits),
                                 iterations |-> 0]
              ELSE /\ pc' = "loop"
                   /\ report' = report
    /\ UNCHANGED <<fixed, loaded, puzzle, calls, loads, stepping>>

(* range(1, MAX_ITERATIONS) is used up: the loop ends without a break. *)
LoopExhausted ==
    /\ pc = "loop"
    /\ ~HasNext
    /\ pc' = "print"
    /\ UNCHANGED <<digits, fixed, loaded, puzzle, raised, prev, last, calls,
                   loads, it, last_unsolved, report, stepping>>

(* iterations = it-1, the "found solution" line unless --quiet, the grid. *)
PrintSolution ==
    /\ pc = "print"
    /\ pc' = "exit"
    /\ report' = [kind |-> IF quiet THEN "grid" ELSE "found",
                  unsolved |-> 0, iterations |-> it - 1]
    /\ UNCHANGED <<digits, fixed, loaded, puzzle, raised, prev, last, calls,
                   loads, it, last_unsolved, stepping>>

NextMain ==
    \/ \E text \in MainPuzzles : MainLoad(text)
    \/ MainNoInput
    \/ LoopBreak
    \/ LoopPass
    \/ LoopExhausted
    \/ PrintSolution

SpecMain == InitMain /\ [][NextMain]_vars

----------------------------------------------------------------------------
(* SpecLoad: Grid.load, one turn of its loop at a time *)

(* g.load(text) is called: counter = 0, and the loop begins. *)
LoadStart(text) ==
    /\ pc = "lib"
    /\ loads < MaxLoads
    /\ pc' = "load"
    /\ puzzle' = text
    /\ counter' = 0
    /\ consumed' = 0
    /\ began' = digits
    /\ prev' = digits
    /\ last' = [NoCall EXCEPT !.op = "load_start"]
    /\ loads' = loads + 1
    /\ UNCHANGED <<digits, fixed, loaded, raised, calls, it, last_unsolved,
                   report, cursor>>

(* One turn of the loop, for the next character c of the text; last.pos    *)
(* keeps the counter the turn began with.                                  *)
LoadChar ==
    /\ pc = "load"
    /\ consumed < Len(puzzle)
    /\ ~Grid_load_done(counter)
    /\ LET c == puzzle[consumed + 1]
           st == Grid_load_char([digits |-> digits, counter |-> counter], c)
       IN  /\ Called(Ok(st.digits), [NoCall EXCEPT !.op = "load_char", !.pos = counter])
           /\ counter' = st.counter
    /\ consumed' = consumed + 1
    /\ UNCHANGED <<fixed, loaded, puzzle, calls, loads, driver, cursor, began>>

(* The loop's break: we have all 81 digits, ignore rest. *)
LoadBreak ==
    /\ pc = "load"
    /\ consumed < Len(puzzle)
    /\ Grid_load_done(counter)
    /\ pc' = "lib"
    /\ loaded' = TRUE
    /\ prev' = began
    /\ last' = [NoCall EXCEPT !.op = "load"]
    /\ UNCHANGED <<digits, fixed, puzzle, raised, calls, loads, it, last_unsolved,
                   report, stepping>>

(* The text is used up: the loop ends. *)
LoadEnd ==
    /\ pc = "load"
    /\ consumed = Len(puzzle)
    /\ pc' = "lib"
    /\ loaded' = TRUE
    /\ prev' = began
    /\ last' = [NoCall EXCEPT !.op = "load"]
    /\ UNCHANGED <<digits, fixed, puzzle, raised, calls, loads, it, last_unsolved,
                   report, stepping>>

NextLoad ==
    \/ \E text \in LoadTexts : LoadStart(text)
    \/ LoadChar
    \/ LoadBreak
    \/ LoadEnd

SpecLoad == Init /\ [][NextLoad]_vars

----------------------------------------------------------------------------
(* SpecPass: Grid.propagate_all on a loaded grid, one turn of its loop at  *)
(* a time                                                                  *)

(* g.propagate_all() is called, and its loop begins. *)
PassStart ==
    /\ pc = "lib"
    /\ loaded
    /\ pc' = "pass"
    /\ cursor' = 0
    /\ began' = digits
    /\ prev' = digits
    /\ raised' = FALSE
    /\ last' = [NoCall EXCEPT !.op = "pass_start"]
    /\ UNCHANGED <<digits, fixed, loaded, puzzle, calls, loads, it, last_unsolved,
                   report, counter, consumed>>

(* One turn of the loop: dig.propagate() for the Digit at the cursor; an   *)
(* exception ends the call.                                                *)
PassStep ==
    /\ pc = "pass"
    /\ cursor < NumDigits
    /\ LET r == Digit_propagate(digits, cursor)
       IN  /\ Called(r, [NoCall EXCEPT !.op = "propagate", !.pos = cursor])
           /\ pc' = IF r.raised THEN "lib" ELSE "pass"
    /\ cursor' = cursor + 1
    /\ UNCHANGED <<fixed, loaded, puzzle, calls, loads, it, last_unsolved,
                   report, counter, consumed, began>>

(* The loop has taken every Digit: the call returns. *)
PassEnd ==
    /\ pc = "pass"
    /\ cursor = NumDigits
    /\ pc' = "lib"
    /\ prev' = began
    /\ last' = [NoCall EXCEPT !.op = "propagate_all"]
    /\ UNCHANGED <<digits, fixed, loaded, puzzle, raised, calls, loads, it,
                   last_unsolved, report, stepping>>

NextPass ==
    \/ \E text \in PassPuzzles : LoadPuzzle(text)
    \/ PassStart
    \/ PassStep
    \/ PassEnd

SpecPass == Init /\ [][NextPass]_vars

----------------------------------------------------------------------------
(* Vocabulary of the properties *)

Members(group) == {group[i] : i \in DOMAIN group}

AllGroups ==
    {rows[i] : i \in DOMAIN rows} \cup {cols[i] : i \in DOMAIN cols}
        \cup {boxes[i] : i \in DOMAIN boxes}

(* The other cells of p's row, col and box. *)
Peers(p) ==
    (Members(Digit_row(p)) \cup Members(Digit_col(p)) \cup Members(Digit_box(p)))
        \ {p}

(* The candidates of p as digits, whether held as int or as str. *)
CandidateInts(ds, p) == {int(x) : x \in ds[p]}

AtMostOnePerGroup(ds) ==
    \A g \in AllGroups : \A p \in Members(g), q \in Members(g) :
        (p # q /\ Digit_solved(ds, p) /\ Digit_solved(ds, q))
            => Digit_getSolvedValue(ds, p) # Digit_getSolvedValue(ds, q)

(* The Grid as load leaves a fresh one. *)
Givens(text) == Grid_load(FreshDigits, text).digits

HasDuplicateGivens(text) == ~AtMostOnePerGroup(Givens(text))

(* A completed grid, from its 81 characters. *)
SolutionOf(text) == [p \in Positions |-> int(ord(text[p + 1]))]

ValidGrid(S) == \A g \in AllGroups : {S[p] : p \in Members(g)} = Values

(* ExampleSolution with the 5s and 9s of cells 0, 1, 72, 73 exchanged. *)
ExampleTwin ==
    [ExampleSolution EXCEPT ![1] = "9", ![2] = "5", ![73] = "5", ![74] = "9"]

Solutions ==
    {S \in {SolutionOf(ExampleSolution), SolutionOf(ExampleTwin),
            SolutionOf(LongChainSolution)} : ValidGrid(S)}

Agrees(text, S) ==
    \A p \in Positions :
        Digit_solved(Givens(text), p) => Digit_getSolvedValue(Givens(text), p) = S[p]

(* No solved cell's value is still a candidate of one of its peers. *)
FullyPropagated(ds) ==
    \A p \in Positions :
        Digit_solved(ds, p)
            => \A q \in Peers(p) : Digit_getSolvedValue(ds, p) \notin CandidateInts(ds, q)

Terminated == pc \in {"exit", "crash"}

----------------------------------------------------------------------------
(* C1: in every state reached by load, setSolvedValue, Digit.not_possible, *)
(* Digit.propagate and propagate_all calls, each of the 81 cells has at    *)
(* least one candidate.  (Spec)                                            *)
C1_NeverEmpty == \A p \in Positions : Cardinality(digits[p]) >= 1

(* not_possible took the second last candidate of a cell. *)
C1_Witness ==
    /\ last.op = "not_possible"
    /\ Cardinality(prev[last.pos]) = 2
    /\ Cardinality(digits[last.pos]) = 1

----------------------------------------------------------------------------
(* C2 as claimed: after load and any number of propagate_all calls, no     *)
(* group has two members solved to the same value.  (SpecSolve)            *)
C2_Original == loaded => AtMostOnePerGroup(digits)

(* C2 as amended: the same, for givens that agree with a valid completed   *)
(* grid.                                                                   *)
C2_Amended ==
    (loaded /\ \E S \in Solutions : Agrees(puzzle, S))
        => AtMostOnePerGroup(digits)

(* A pass over such givens has solved a cell. *)
C2_Witness ==
    /\ loaded
    /\ \E S \in Solutions : Agrees(puzzle, S)
    /\ last.op = "propagate_all"
    /\ Grid_number_unsolved(digits) < Grid_number_unsolved(prev)

----------------------------------------------------------------------------
(* C3: after setSolvedValue(v, propagate=True), or propagate on a solved   *)
(* cell, no other unsolved cell of that cell's row, col or box has the     *)
(* value among its candidates.  (Spec)                                     *)
C3_PeersEliminated ==
    /\ (last.op = "setSolvedValue" /\ last.flag)
        => \A q \in Peers(last.pos) :
              ~Digit_solved(digits, q)
                  => (last.val \notin digits[q] /\ int(last.val) \notin digits[q])
    /\ (last.op = "propagate" /\ Digit_solved(prev, last.pos))
        => \A q \in Peers(last.pos) :
              ~Digit_solved(digits, q)
                  => Digit_getSolvedValue(prev, last.pos) \notin digits[q]

(* The assigned value was a candidate of a peer that is still unsolved. *)
C3_Witness ==
    /\ last.op = "setSolvedValue"
    /\ last.flag
    /\ \E q \in Peers(last.pos) :
          int(last.val) \in prev[q] /\ ~Digit_solved(digits, q)

----------------------------------------------------------------------------
(* C4: when the loaded puzzle gives the same digit twice in a row, col or  *)
(* box, propagation raises.  (SpecSolve)                                   *)
C4_DuplicatesRaise ==
    (loaded /\ HasDuplicateGivens(puzzle) /\ last.op = "propagate_all") => raised

----------------------------------------------------------------------------
(* C5: Digit.not_possible(value) on a solved cell raises and leaves its    *)
(* candidates as they were; on an unsolved cell it removes value, if       *)
(* there, and nothing else.  (Spec)                                        *)
C5_NotPossible ==
    last.op = "not_possible"
        => IF Digit_solved(prev, last.pos)
           THEN raised /\ digits = prev
           ELSE /\ ~raised
                /\ digits[last.pos] = prev[last.pos] \ {last.val}
                /\ ~last.flag
                    => \A q \in Positions \ {last.pos} : digits[q] = prev[q]

(* It raised on a cell solved to the very value it was asked to remove. *)
C5_Witness ==
    /\ last.op = "not_possible"
    /\ raised
    /\ prev[last.pos] = {last.val}

----------------------------------------------------------------------------
(* C6: the script says "found solution" only of a solved grid, and every   *)
(* run that ends with a cell unsolved says "cannot solve" with the count   *)
(* of unsolved cells.  (SpecMain)                                          *)
C6_ReportsMatch ==
    (pc = "exit" /\ report.kind # "help")
        => /\ report.kind = "found" => Grid_number_unsolved(digits) = 0
           /\ Grid_number_unsolved(digits) > 0
                => /\ report.kind = "stall"
                   /\ report.unsolved = Grid_number_unsolved(digits)

----------------------------------------------------------------------------
(* C7: the solve loop ends, after at most 81 turns, and each turn that is  *)
(* not a stall leaves fewer cells unsolved than it found: every step       *)
(* taken in the loop leaves the loop or starts the next turn, the turns    *)
(* made and the cells unsolved never add up to more than 81, and a turn    *)
(* after which the loop goes on has solved a cell.  (SpecMain)             *)
C7_LoopTerminates ==
    /\ [][pc = "loop" => (pc' # "loop" \/ it' = it + 1)]_vars
    /\ [](pc = "loop" => it + Grid_number_unsolved(digits) <= NumDigits)
    /\ [](it <= NumDigits)
    /\ []((last.op = "propagate_all" /\ pc = "loop")
            => Grid_number_unsolved(digits) < Grid_number_unsolved(prev))

(* A run that ended after turns that made progress. *)
C7_Witness ==
    /\ Terminated
    /\ it > 2
    /\ last.op = "propagate_all"

----------------------------------------------------------------------------
(* C8: propagate_all never leaves more cells unsolved than it found.       *)
(* (Spec)                                                                  *)
C8_NonIncreasing ==
    last.op = "propagate_all"
        => Grid_number_unsolved(digits) <= Grid_number_unsolved(prev)

(* A pass that solved a cell. *)
C8_Witness ==
    /\ last.op = "propagate_all"
    /\ Grid_number_unsolved(digits) < Grid_number_unsolved(prev)
    /\ calls > 0

----------------------------------------------------------------------------
(* C9: when the givens agree with a valid completed grid S, every cell     *)
(* keeps S's value among its candidates through propagate_all calls, so    *)
(* no cell is solved to another value.  (SpecSolve)                        *)
C9_KeepsSolution ==
    \A S \in Solutions :
        (loaded /\ Agrees(puzzle, S))
            => \A p \in Positions :
                  /\ S[p] \in CandidateInts(digits, p)
                  /\ Digit_solved(digits, p) => Digit_getSolvedValue(digits, p) = S[p]

(* A puzzle with two solutions, stalled with both still open. *)
C9_Witness ==
    /\ loaded
    /\ Cardinality({S \in Solutions : Agrees(puzzle, S)}) = 2
    /\ last.op = "propagate_all"
    /\ digits = prev
    /\ digits # Givens(puzzle)

----------------------------------------------------------------------------
(* C10: propagate_all on a fully propagated grid changes no candidate set  *)
(* (and so not number_unsolved()).  (Spec)                                 *)
C10_Idempotent ==
    (last.op = "propagate_all" /\ FullyPropagated(prev))
        => /\ digits = prev
           /\ Grid_number_unsolved(digits) = Grid_number_unsolved(prev)

(* The pass ran on a fully propagated grid with solved and unsolved cells. *)
C10_Witness ==
    /\ last.op = "propagate_all"
    /\ FullyPropagated(prev)
    /\ Grid_number_unsolved(prev) \in 1 .. (NumDigits - 1)

----------------------------------------------------------------------------
(* Vocabulary of the properties of load *)

(* The character the last turn of load's loop took. *)
Taken == puzzle[consumed]

Recognized == DigitChars \cup UNKNOWN_DIGIT_INPUT

(* 81 characters, each a digit or an unknown marker. *)
PlainText(text) ==
    Len(text) = NumDigits /\ \A i \in 1 .. NumDigits : text[i] \in Recognized

----------------------------------------------------------------------------
(* C11 as claimed: for any input string, load has consumed exactly 81      *)
(* cell slots when it returns.  (SpecLoad)                                 *)
C11_Original == last.op = "load" => counter = NumDigits

(* C11 as amended: load returns with 81 slots consumed or with the text    *)
(* used up, whichever comes first; a digit or unknown marker consumes one  *)
(* slot; a character load does not know consumes none and changes          *)
(* nothing; a row terminator moves the counter to the next multiple of 9   *)
(* when it is not at one, and does nothing otherwise.                      *)
C11_Amended ==
    /\ last.op = "load"
        => /\ counter <= NumDigits
           /\ counter = NumDigits \/ consumed = Len(puzzle)
    /\ last.op = "load_char"
        => /\ Taken \in Recognized => counter = last.pos + 1
           /\ Taken \in ROW_TERMINATOR
                => /\ digits = prev
                   /\ IF last.pos % 9 # 0
                      THEN /\ counter % 9 = 0
                           /\ counter > last.pos
                           /\ counter < last.pos + 9
                      ELSE counter = last.pos
           /\ Taken \notin (Recognized \cup ROW_TERMINATOR)
                => (counter = last.pos /\ digits = prev)

(* A terminator padded a short row by more than one slot. *)
C11_Witness ==
    /\ last.op = "load_char"
    /\ Taken \in ROW_TERMINATOR
    /\ counter > last.pos + 1

----------------------------------------------------------------------------
----------------------------------------------------------------------------
(* C13: load does not propagate.  A turn of its loop for a digit changes   *)
(* the candidates of that one cell only; when load returns on a fresh      *)
(* grid each cell holds either the one given character or all of 1..9,     *)
(* the cells of a plain 81-character text each by its own character, and   *)
(* the grid is the one load taken as a whole gives.  (SpecLoad)            *)
C13_NoPropagation ==
    /\ (last.op = "load_char" /\ Taken \in DigitChars)
        => digits = [prev EXCEPT ![last.pos] = {ord(Taken)}]
    /\ (last.op = "load" /\ began = FreshDigits)
        => /\ \A p \in Positions :
                 digits[p] = Values \/ \E c \in DigitChars : digits[p] = {ord(c)}
           /\ PlainText(puzzle)
                => \A p \in Positions :
                      digits[p] = IF puzzle[p + 1] \in DigitChars
                                  THEN {ord(puzzle[p + 1])} ELSE Values
           /\ digits = Givens(puzzle)

(* Load returned leaving all nine candidates, the given digit among them,  *)
(* in a peer of a given cell.                                              *)
C13_Witness ==
    /\ last.op = "load"
    /\ began = FreshDigits
    /\ \E p \in Positions : \E q \in Peers(p) :
          /\ Digit_solved(digits, p)
          /\ digits[q] = Values

----------------------------------------------------------------------------
(* C20: load's counter stays in 0..81, a turn of its loop begins with the  *)
(* counter in 0..80 and changes no cell but the one at the counter, the    *)
(* grid keeps its 81 cells, and once the counter is 81 load reads no       *)
(* further character: its next step is its return.  (SpecLoad)             *)
C20_InBounds ==
    /\ [](counter \in 0 .. NumDigits)
    /\ [](DOMAIN digits = Positions)
    /\ [](last.op = "load_char"
            => /\ last.pos \in Positions
               /\ \A p \in Positions : digits[p] # prev[p] => p = last.pos)
    /\ [][(pc = "load" /\ counter = NumDigits)
            => (pc' = "lib" /\ digits' = digits /\ counter' = counter)]_vars

(* A row terminator in the last row took the counter to 81, and load       *)
(* returned with text left over.                                           *)
C20_Witness ==
    /\ last.op = "load"
    /\ counter = NumDigits
    /\ consumed < Len(puzzle)
    /\ Taken \in ROW_TERMINATOR

----------------------------------------------------------------------------
(* The completed grids of the properties, as texts. *)
SolutionTexts == {ExampleSolution, ExampleTwin, LongChainSolution}

(* text is a valid completed grid with cell b, and no other, blanked. *)
OneBlank(text, b) ==
    \E solution \in SolutionTexts :
        ValidGrid(SolutionOf(solution)) /\ text = Blanked(solution, {b})

(* The digits no other cell of b's row is given in text. *)
MissingFromRow(text, b) ==
    {v \in Values : \A q \in Members(Digit_row(b)) \ {b} : int(ord(text[q + 1])) # v}

(* C14: for a valid completed grid with exactly one cell blanked, the      *)
(* first propagate_all after load leaves every cell solved, the blanked    *)
(* one to the one digit its row lacks.  (SpecSolve)                        *)
C14_SingleBlank ==
    (last.op = "propagate_all" /\ prev = Givens(puzzle))
        => \A b \in Positions :
              OneBlank(puzzle, b)
                  => /\ ~raised
                     /\ Grid_solved(digits)
                     /\ MissingFromRow(puzzle, b) = {Digit_getSolvedValue(digits, b)}

(* The pass ran on a grid whose one blank is its first cell, which the     *)
(* pass visits before any of the cells that solve it.                      *)
C14_Witness ==
    /\ last.op = "propagate_all"
    /\ prev = Givens(puzzle)
    /\ OneBlank(puzzle, 0)
    /\ ~Digit_solved(prev, 0)
    /\ Digit_solved(digits, 0)

----------------------------------------------------------------------------
(* C15: with all 81 cells unknown, solved() is false after load, the       *)
(* first propagate_all leaves number_unsolved() at 81, and the script      *)
(* ends in the first turn of its loop, saying it stalled with 81           *)
(* unsolved.  (SpecMain)                                                   *)
C15_EmptyStalls ==
    (loaded /\ puzzle = EmptyGrid)
        => /\ last.op = "load"
                => /\ ~Grid_solved(digits)
                   /\ Grid_number_unsolved(digits) = NumDigits
                   /\ pc = "loop"
           /\ last.op = "propagate_all"
                => /\ Grid_number_unsolved(digits) = NumDigits
                   /\ digits = prev
                   /\ it = 1
                   /\ pc = "exit"
                   /\ report = [kind |-> "stall", unsolved |-> NumDigits,
                                iterations |-> 0]

(* The script ended on the empty grid. *)
C15_Witness ==
    /\ puzzle = EmptyGrid
    /\ loaded
    /\ last.op = "propagate_all"
    /\ Terminated

----------------------------------------------------------------------------
(* C16: the cell at position p is a member of row p div 9, of col p mod 9  *)
(* and of box ((p div 9) div 3)*3 + (p mod 9) div 3, and of no other       *)
(* group; each of the 27 groups lists 9 cells, none of them twice; and no  *)
(* call changes the groups.  (Spec)                                        *)
C16_Membership ==
    /\ [](/\ DOMAIN rows = 0 .. 8
          /\ DOMAIN cols = 0 .. 8
          /\ DOMAIN boxes = 0 .. 8
          /\ \A i \in 0 .. 8 :
                /\ Len(rows[i]) = 9
                /\ Len(cols[i]) = 9
                /\ Len(boxes[i]) = 9
                /\ Members(rows[i]) = {p \in Positions : p \div 9 = i}
                /\ Members(cols[i]) = {p \in Positions : p % 9 = i}
                /\ Members(boxes[i]) =
                      {p \in Positions : ((p \div 9) \div 3) * 3 + ((p % 9) \div 3) = i}
                /\ Cardinality(Members(rows[i])) = 9
                /\ Cardinality(Members(cols[i])) = 9
                /\ Cardinality(Members(boxes[i])) = 9)
    /\ [][rows' = rows /\ cols' = cols /\ boxes' = boxes]_vars

(* Calls have changed the candidates of cells since the Grid was made. *)
C16_Witness ==
    /\ loaded
    /\ calls > 0
    /\ last.op = "propagate_all"
    /\ digits # prev

----------------------------------------------------------------------------
(* C17 as claimed: a cell that becomes solved partway through a pass is    *)
(* not propagated within that pass, so the turn of a cell that was         *)
(* unsolved when the pass began changes nothing.  (SpecPass)               *)
C17_Original ==
    (last.op = "propagate" /\ ~Digit_solved(began, last.pos)) => digits = prev

(* C17 as amended: the pass takes the cells 0..80 once each in index       *)
(* order and returns after the last; the turn of a cell that is solved     *)
(* when its turn comes, whether from before the pass or since it began,    *)
(* takes its value from every unsolved peer and changes no other cell;     *)
(* the turn of a cell unsolved at its turn changes nothing, and the cell   *)
(* gets no other turn in that pass; the pass as a whole leaves what        *)
(* propagate_all leaves.                                                   *)
C17_Amended ==
    /\ [](cursor \in 0 .. NumDigits)
    /\ [][(pc = "pass" /\ pc' = "pass") => (cursor' = cursor + 1 /\ last'.pos = cursor)]_vars
    /\ [][(pc = "pass" /\ pc' = "lib") => (cursor = NumDigits /\ digits' = digits)]_vars
    /\ [](last.op = "propagate"
            => /\ ~raised
               /\ IF Digit_solved(prev, last.pos)
                  THEN /\ \A q \in Peers(last.pos) :
                             ~Digit_solved(digits, q)
                                 => Digit_getSolvedValue(prev, last.pos) \notin digits[q]
                       /\ \A q \in Positions \ Peers(last.pos) : digits[q] = prev[q]
                  ELSE digits = prev)
    /\ [](last.op = "propagate_all" => Grid_propagate_all(prev) = Ok(digits))

(* The pass has returned; a cell it solved after that cell's turn still    *)
(* has its value among the candidates of an unsolved peer.                 *)
C17_Witness ==
    /\ last.op = "propagate_all"
    /\ \E p \in Positions :
          /\ ~Digit_solved(prev, p)
          /\ Digit_solved(digits, p)
          /\ \E q \in Peers(p) :
                /\ ~Digit_solved(digits, q)
                /\ Digit_getSolvedValue(digits, p) \in digits[q]

----------------------------------------------------------------------------
GroupOps == {"row.not_possible", "col.not_possible", "box.not_possible"}

(* The members of the group the last DigitGroup.not_possible was called on. *)
LastGroup ==
    Members(CASE last.op = "row.not_possible" -> rows[last.pos]
              [] last.op = "col.not_possible" -> cols[last.pos]
              [] last.op = "box.not_possible" -> boxes[last.pos])

(* C18: DigitGroup.not_possible(value) takes value from the members that   *)
(* are unsolved and leaves every solved member and every cell outside the  *)
(* group as it was, without raising; so through DigitGroup.not_possible,   *)
(* propagate and propagate_all calls a solved cell keeps its candidate     *)
(* set, and with it its value.  (Spec)                                     *)
C18_SolvedKept ==
    /\ last.op \in GroupOps
        => /\ ~raised
           /\ \A p \in Positions :
                 digits[p] = IF p \in LastGroup /\ ~Digit_solved(prev, p)
                             THEN prev[p] \ {last.val}
                             ELSE prev[p]
    /\ last.op \in GroupOps \cup {"propagate", "propagate_all"}
        => \A p \in Positions : Digit_solved(prev, p) => digits[p] = prev[p]

(* The group was told of a value one member is solved to and another,      *)
(* unsolved, still had.                                                    *)
C18_Witness ==
    /\ last.op \in GroupOps
    /\ \E p \in LastGroup : prev[p] = {last.val}
    /\ \E q \in LastGroup : ~Digit_solved(prev, q) /\ last.val \in prev[q]

----------------------------------------------------------------------------
(* No unsolved cell holds the value of a solved cell of its row, col or box. *)
AtFixpoint(ds) ==
    \A p \in Positions :
        Digit_solved(ds, p)
            => \A q \in Peers(p) :
                  ~Digit_solved(ds, q)
                      => Digit_getSolvedValue(ds, p) \notin CandidateInts(ds, q)

(* C19: when the script reports a stall, no unsolved cell has the value of *)
(* a solved cell of its row, col or box among its candidates, and another  *)
(* propagate_all would return normally leaving every candidate set as it   *)
(* is.  (SpecMain)                                                         *)
C19_StallIsFixpoint ==
    report.kind = "stall"
        => /\ AtFixpoint(digits)
           /\ Grid_propagate_all(digits) = Ok(digits)

(* The pass that stalled took candidates from cells without solving one. *)
C19_Witness ==
    /\ report.kind = "stall"
    /\ digits # prev
    /\ Grid_number_unsolved(digits) > 0

====
